---- MODULE Spec2Model ----
(***************************************************************************)
(* A model of the repository analysis agent (main.py) and its command      *)
(* line (cli.py).                                                          *)
(*                                                                         *)
(* Strings the code inspects character by character (file names, file      *)
(* extensions) are sequences of one-character strings; strings it only     *)
(* copies, compares or concatenates are TLA+ strings.  A path is the       *)
(* sequence of its components below the scratch directory.                 *)
(***************************************************************************)
EXTENDS Integers, Sequences, FiniteSets, TLC

VARIABLES
    pc,         \* position of the command: "idle", "clone", "structure", "walk", "save"
    token,      \* GITHUB_TOKEN as os.getenv returned it to the last invocation
    output,     \* the --output option of the last invocation
    scratch,    \* the scratch directory temp_repo_<branch> on disk
    cwd,        \* the files written to the working directory: name -> content
    agents,     \* how many GitHubAnalysisAgent objects were constructed
    cloneCalls, \* how many times Repo.clone_from was called
    run,        \* what the current (or last) analyze_repository call saw and did
    structure,  \* analyze_repository's local `structure`
    pending,    \* the eligible files os.walk has still to yield, in its order
    files,      \* analyze_repository's local `files`
    outcome,    \* how the last invocation ended, and with what
    echo,       \* what the last invocation printed
    runs,       \* how many invocations have ended
    op,         \* the name of the method that was called directly
    arg,        \* the arguments of the direct call, by method
    ret         \* what the direct call returned, by method

vars == <<pc, token, output, scratch, cwd, agents, cloneCalls, run, structure,
          pending, files, outcome, echo, runs, op, arg, ret>>

pipelineVars == <<pc, token, output, scratch, cwd, agents, cloneCalls, run, structure,
                  pending, files, outcome, echo, runs>>

callVars == <<op, arg, ret>>

(***************************************************************************)
(* Bounds of the model.                                                    *)
(***************************************************************************)
MaxEntries == 2     \* entries (files, directories, links) of a repository tree
MaxRuns == 2        \* invocations of the command in a row
MaxFiles == 3       \* length of a list of FileContext handed to detect_main_languages
MaxStmts == 2       \* statements of a Python module's body

(***************************************************************************)
(* Python's str and pathlib operations, as the code uses them.             *)
(***************************************************************************)
Last(s) == s[Len(s)]

StartsWith(s, p) == Len(s) >= Len(p) /\ SubSeq(s, 1, Len(p)) = p

EndsWith(s, p) == Len(s) >= Len(p) /\ SubSeq(s, Len(s) - Len(p) + 1, Len(s)) = p

\* str.rfind(c), counted from 1; 0 when c does not occur
RFind(s, c) ==
    LET I == {i \in 1..Len(s) : s[i] = c}
    IN IF I = {} THEN 0 ELSE CHOOSE i \in I : \A j \in I : j <= i

LowerChar(c) ==
    CASE c = "P" -> "p"
      [] c = "Y" -> "y"
      [] c = "J" -> "j"
      [] c = "S" -> "s"
      [] OTHER -> c

\* str.lower()
Lower(s) == [i \in 1..Len(s) |-> LowerChar(s[i])]

\* pathlib's PurePath.suffix of a path whose final component is `name`: the
\* text from the last dot, unless that dot is the first or last character
Suffix(name) ==
    LET i == RFind(name, ".")
    IN IF 1 < i /\ i < Len(name) THEN SubSeq(name, i, Len(name)) ELSE <<>>

(***************************************************************************)
(* File extensions and names.                                              *)
(***************************************************************************)
Ext_py == <<".", "p", "y">>
Ext_js == <<".", "j", "s">>
Ext_ts == <<".", "t", "s">>
Ext_java == <<".", "j", "a", "v", "a">>
Ext_cpp == <<".", "c", "p", "p">>
Ext_go == <<".", "g", "o">>
Ext_PY == <<".", "P", "Y">>
Ext_xyz == <<".", "x", "y", "z">>

Extensions == {Ext_py, Ext_js, Ext_ts, Ext_java, Ext_cpp, Ext_go, Ext_PY, Ext_xyz, <<>>}

a_py == <<"a">> \o Ext_py
dot_py == Ext_py
b_js == <<"b">> \o Ext_js
c_cpp == <<"c">> \o Ext_cpp
lib == <<"l", "i", "b">>
dot_git == <<".", "g", "i", "t">>
pycache == <<"_", "_", "p", "y", "c", "a", "c", "h", "e", "_", "_">>

Names == {a_py, dot_py, b_js, c_cpp, lib, dot_git, pycache}

(***************************************************************************)
(* Directory trees: a set of entries, each the path of a file, a directory *)
(* or a dangling symbolic link, closed under parent directories.           *)
(***************************************************************************)
Kinds == {"file", "dir", "link"}

Paths(tree) == {e.path : e \in tree}

DirPaths(tree) == {<<>>} \cup {e.path : e \in {x \in tree : x.kind = "dir"}}

Extensions1(tree) ==
    { tree \cup {[path |-> Append(x[1], x[2]), kind |-> x[3]]} :
        x \in {y \in DirPaths(tree) \X Names \X Kinds : Append(y[1], y[2]) \notin Paths(tree)} }

RECURSIVE TreesUpTo(_)
TreesUpTo(n) ==
    IF n = 0 THEN {{}}
    ELSE LET prev == TreesUpTo(n - 1)
         IN prev \cup UNION {Extensions1(t) : t \in prev}

Trees == TreesUpTo(MaxEntries)

\* Path.iterdir / os.listdir of directory d
ListDir(tree, d) ==
    {e \in tree : Len(e.path) = Len(d) + 1 /\ SubSeq(e.path, 1, Len(d)) = d}

(***************************************************************************)
(* Results of calls: a value, or the exception raised.                     *)
(***************************************************************************)
Ok(v) == [ok |-> TRUE, val |-> v, exc |-> ""]
Raise(e) == [ok |-> FALSE, val |-> <<>>, exc |-> e]

(***************************************************************************)
(* analyze_file_structure: the nested mapping name -> None | mapping.      *)
(***************************************************************************)
None == [k |-> "None", d |-> <<>>]
Dict(f) == [k |-> "dict", d |-> f]

\* a variant of the test of line 64 that skips hidden names only
SkipsHiddenOnly(name) == StartsWith(name, <<".">>)

\* main.py line 64
SkippedByTreeWalk(name) == StartsWith(name, <<".">>) \/ name = pycache

Visited(tree, path) == {e \in ListDir(tree, path) : ~SkippedByTreeWalk(Last(e.path))}

\* the mapping build_structure leaves in current_dict for directory `path`
RECURSIVE build_structure(_, _)
build_structure(tree, path) ==
    LET items == Visited(tree, path)
    IN [nm \in {Last(e.path) : e \in items} |->
           LET e == CHOOSE x \in items : Last(x.path) = nm
           IN IF e.kind = "file" THEN None ELSE Dict(build_structure(tree, e.path))]

\* build_structure raises when it recurses into an entry that is not a file
\* and cannot be listed (is_file() is False for a dangling link)
RECURSIVE build_raises(_, _)
build_raises(tree, path) ==
    \E e \in Visited(tree, path) :
        \/ e.kind = "link"
        \/ e.kind = "dir" /\ build_raises(tree, e.path)

analyze_file_structure(tree) ==
    IF build_raises(tree, <<>>) THEN Raise("FileNotFoundError")
    ELSE Ok(build_structure(tree, <<>>))

(***************************************************************************)
(* detect_language.                                                        *)
(***************************************************************************)
language_map ==
    (Ext_py :> "python") @@ (Ext_js :> "javascript") @@ (Ext_ts :> "typescript") @@
    (Ext_java :> "java") @@ (Ext_cpp :> "cpp") @@ (Ext_go :> "go")

detect_language(file_extension) ==
    LET key == Lower(file_extension)
    IN IF key \in DOMAIN language_map THEN language_map[key] ELSE "unknown"

Languages == {language_map[e] : e \in DOMAIN language_map} \cup {"unknown"}

(***************************************************************************)
(* Python source text and its syntax tree.  A source text is represented   *)
(* by what ast.parse makes of it: a SyntaxError, or a Module whose body is *)
(* a sequence of statements.  A module name that is absent (`from . import *)
(* x`) is Python's None, written "None" (no module can have that name).    *)
(***************************************************************************)
alias(n) == [type |-> "alias", name |-> n]

Import(ns) == [type |-> "Import", names |-> [i \in 1..Len(ns) |-> alias(ns[i])]]

ImportFrom(m, ns) ==
    [type |-> "ImportFrom", module |-> m, names |-> [i \in 1..Len(ns) |-> alias(ns[i])]]

IfStmt(b) == [type |-> "If", test |-> [type |-> "Name"], body |-> b]

ExprStmt == [type |-> "Expr"]

Module(b) == [type |-> "Module", body |-> b]

SourceOf(b) == [parses |-> TRUE, tree |-> Module(b)]

Unparsable == [parses |-> FALSE, tree |-> Module(<<>>)]

SeqsUpTo(S, n) == UNION {[1..k -> S] : k \in 0..n}

TopLevelStmts ==
    { Import(<<"os">>), Import(<<"os", "sys">>), ImportFrom("a.b", <<"c">>),
      ImportFrom("None", <<"x">>), ExprStmt }

Stmts == TopLevelStmts \cup {IfStmt(<<Import(<<"re">>)>>), IfStmt(<<ExprStmt>>)}

Sources == {Unparsable} \cup {SourceOf(b) : b \in SeqsUpTo(Stmts, MaxStmts)}

\* the text `import os` / `from a.b import c`
SampleSource == SourceOf(<<Import(<<"os">>), ImportFrom("a.b", <<"c">>)>>)

\* ast.iter_child_nodes
iter_child_nodes(node) ==
    CASE node.type = "Module" -> node.body
      [] node.type = "Import" -> node.names
      [] node.type = "ImportFrom" -> node.names
      [] node.type = "If" -> <<node.test>> \o node.body
      [] OTHER -> <<>>

\* ast.walk: breadth first, from a queue holding the nodes still to yield
RECURSIVE walk_from(_)
walk_from(todo) ==
    IF todo = <<>> THEN <<>>
    ELSE <<Head(todo)>> \o walk_from(Tail(todo) \o iter_child_nodes(Head(todo)))

ast_walk(tree) == walk_from(<<tree>>)

\* main.py lines 114-120: what one node appends to `imports`
ModuleOrEmpty(m) == IF m = "None" THEN "" ELSE m

\* a variant of NodeImports that drops the imported name of a from-import
NodeImportsModuleOnly(node) ==
    CASE node.type = "Import" -> [i \in 1..Len(node.names) |-> node.names[i].name]
      [] node.type = "ImportFrom" ->
            [i \in 1..Len(node.names) |-> ModuleOrEmpty(node.module)]
      [] OTHER -> <<>>

NodeImports(node) ==
    CASE node.type = "Import" -> [i \in 1..Len(node.names) |-> node.names[i].name]
      [] node.type = "ImportFrom" ->
            [i \in 1..Len(node.names) |->
                ModuleOrEmpty(node.module) \o "." \o node.names[i].name]
      [] OTHER -> <<>>

RECURSIVE collect_imports(_)
collect_imports(nodes) ==
    IF nodes = <<>> THEN <<>>
    ELSE NodeImports(Head(nodes)) \o collect_imports(Tail(nodes))

\* a variant of extract_imports whose parse failure is not caught
extract_imports_uncaught(content, language) ==
    IF language = "python"
    THEN IF content.parses THEN Ok(collect_imports(ast_walk(content.tree)))
         ELSE Raise("SyntaxError")
    ELSE Ok(<<>>)

extract_imports(content, language) ==
    IF language = "python"
    THEN IF content.parses THEN Ok(collect_imports(ast_walk(content.tree)))
         ELSE Ok(<<>>)
    ELSE Ok(<<>>)

analyze_dependencies(content, language) == <<>>

generate_file_description(content, language) == "Source code file in " \o language

(***************************************************************************)
(* analyze_file_content.  A file on disk is its bytes: whether they decode *)
(* as UTF-8, and the text they decode to.                                  *)
(***************************************************************************)
DiskFiles ==
    { [utf8 |-> FALSE, text |-> Unparsable],
      [utf8 |-> TRUE, text |-> Unparsable],
      [utf8 |-> TRUE, text |-> SampleSource] }

analyze_file_content(file_path, kind, disk) ==
    IF kind = "link" THEN Raise("FileNotFoundError")
    ELSE IF ~disk.utf8 THEN Raise("UnicodeDecodeError")
    ELSE LET content == disk.text
             file_ext == Suffix(Last(file_path))
             language == detect_language(file_ext)
             imports == extract_imports(content, language)
         IN IF ~imports.ok THEN imports
            ELSE Ok([path |-> file_path,
                     content |-> content,
                     language |-> language,
                     imports |-> imports.val,
                     dependencies |-> analyze_dependencies(content, language),
                     description |-> generate_file_description(content, language)])

(***************************************************************************)
(* detect_main_languages and aggregate_dependencies.                       *)
(***************************************************************************)
\* the keys of language_count, in the order the loop inserted them
RECURSIVE first_seen(_)
first_seen(langs) ==
    IF langs = <<>> THEN <<>>
    ELSE LET rest == first_seen(SubSeq(langs, 1, Len(langs) - 1))
             l == Last(langs)
         IN IF \E i \in 1..Len(rest) : rest[i] = l THEN rest ELSE Append(rest, l)

language_count(fs, l) == Cardinality({i \in 1..Len(fs) : fs[i].language = l})

\* sorted(items, key=count, reverse=True) is stable: an item goes behind the
\* items of greater or equal count that precede it
RECURSIVE sorted_by_count(_, _)
sorted_by_count(items, reversed) ==
    IF items = <<>> THEN <<>>
    ELSE LET done == sorted_by_count(SubSeq(items, 1, Len(items) - 1), reversed)
             it == Last(items)
             before == {i \in 1..Len(done) :
                           IF reversed THEN done[i][2] >= it[2] ELSE done[i][2] <= it[2]}
             k == Cardinality(before)
         IN SubSeq(done, 1, k) \o <<it>> \o SubSeq(done, k + 1, Len(done))

main_languages_sorted(fs, reversed) ==
    LET keys == first_seen([i \in 1..Len(fs) |-> fs[i].language])
        items == [i \in 1..Len(keys) |-> <<keys[i], language_count(fs, keys[i])>>]
        sorted_languages == sorted_by_count(items, reversed)
    IN [i \in 1..Len(sorted_languages) |-> sorted_languages[i][1]]

\* a variant of detect_main_languages that sorts without reverse=True
detect_main_languages_ascending(fs) == main_languages_sorted(fs, FALSE)

detect_main_languages(fs) == main_languages_sorted(fs, TRUE)

aggregate_dependencies(fs) ==
    LET deps == UNION {{fs[i].dependencies[j] : j \in 1..Len(fs[i].dependencies)} :
                          i \in 1..Len(fs)}
    IN [d \in deps |->
           Cardinality({x \in UNION {{<<i, j>> : j \in 1..Len(fs[i].dependencies)} :
                                        i \in 1..Len(fs)} :
                           fs[x[1]].dependencies[x[2]] = d})]

(***************************************************************************)
(* The disk and the command's inputs.                                      *)
(***************************************************************************)
\* temp_repo_<branch>: whether it exists, whether it is a git work tree, its entries
Absent == [exists |-> FALSE, repo |-> FALSE, tree |-> {}]

Present(isRepo, tree) == [exists |-> TRUE, repo |-> isRepo, tree |-> tree]

\* os.getenv('GITHUB_TOKEN'): None, or the variable's text
TokenNone == [isNone |-> TRUE, str |-> ""]
TokenStr(s) == [isNone |-> FALSE, str |-> s]
Tokens == {TokenNone, TokenStr(""), TokenStr("ghp_t0ken")}

Outputs == {"repo_context.json", "out.json"}

\* repo_url.split('/') of the one repository URL, and the one branch
RepoUrlParts == <<"https:", "", "github.com", "ktwillcode", "Github_agent">>
Branch == "main"

NoContext == [repo_name |-> "", branch |-> "", files |-> <<>>, structure |-> <<>>,
              main_languages |-> <<>>, dependencies |-> <<>>]

NoFile == [path |-> <<>>, kind |-> "none", disk |-> [utf8 |-> FALSE, text |-> Unparsable]]

\* what a call of analyze_repository saw and did: how the invocation before it
\* ended, whether the scratch directory existed when it began, its calls of
\* Repo.clone_from, the tree it walked and the file it opened last
NoRun == [after |-> "none", existed |-> FALSE, clones |-> 0, tree |-> {}, opened |-> NoFile]

NoOutcome == [call |-> "none", error |-> "", context |-> NoContext]

\* the arguments and the results of the direct calls, before any call
NoArg == [tree |-> {}, ext |-> <<>>, content |-> Unparsable, language |-> "", files |-> <<>>]

NoRet == [structure |-> Ok(<<>>), language |-> "", imports |-> Ok(<<>>), main_languages |-> <<>>]

(***************************************************************************)
(* cli.py: the credential check.                                           *)
(***************************************************************************)
\* a variant of the check that tests only for None
MissingTokenIsNone(t) == t.isNone

\* `not github_token`
MissingToken(t) == t.isNone \/ t.str = ""

(***************************************************************************)
(* clone_repository and the cleanup of analyze_repository.                 *)
(***************************************************************************)
\* a variant of the test of line 47 that never finds the path
ReusesNothing(dir) == FALSE

\* os.path.exists(local_path), line 47
ReusesLocalPath(dir) == dir.exists

\* a variant of the finally block that leaves the directory
FinallyKeeps(dir) == dir

\* the finally block, lines 172-176
Finally(dir) == IF dir.exists THEN Absent ELSE dir

(***************************************************************************)
(* os.walk(temp_dir): the orders in which it can yield the entries that    *)
(* are not directories; the order within a directory is the file system's. *)
(***************************************************************************)
Perms(S) == {p \in [1..Cardinality(S) -> S] : \A i, j \in 1..Cardinality(S) : p[i] = p[j] => i = j}

RECURSIVE os_walk(_, _)
RECURSIVE walk_dirs(_, _)
os_walk(tree, top) ==
    LET nondirs == {e \in ListDir(tree, top) : e.kind # "dir"}
        dirs == {e.path : e \in {x \in ListDir(tree, top) : x.kind = "dir"}}
    IN {f \o r : f \in Perms(nondirs), r \in UNION {walk_dirs(tree, ds) : ds \in Perms(dirs)}}

walk_dirs(tree, ds) ==
    IF ds = <<>> THEN {<<>>}
    ELSE {h \o t : h \in os_walk(tree, Head(ds)), t \in walk_dirs(tree, Tail(ds))}

\* the tuple of line 152
SelectedSuffixes == {Ext_py, Ext_js, Ext_java, Ext_ts, Ext_go}

IsSelected(e) == \E s \in SelectedSuffixes : EndsWith(Last(e.path), s)

SelectedWalks(tree) == {SelectSeq(w, IsSelected) : w \in os_walk(tree, <<>>)}

(***************************************************************************)
(* save_context: the two artifacts.                                        *)
(***************************************************************************)
json_context(c) ==
    [repo_name |-> c.repo_name,
     branch |-> c.branch,
     structure |-> c.structure,
     main_languages |-> c.main_languages,
     files |-> [i \in 1..Len(c.files) |->
                   [path |-> c.files[i].path,
                    language |-> c.files[i].language,
                    imports |-> c.files[i].imports,
                    dependencies |-> c.files[i].dependencies,
                    description |-> c.files[i].description]]]

Pickled(c) == [format |-> "pickle", data |-> c]
Json(c) == [format |-> "json", data |-> json_context(c)]

\* the names save_context opens: its `filename` default, and line 219
PickleName == "repo_context.pkl"
JsonName == "repo_context.json"

WriteFile(dir, name, content) == [n \in DOMAIN dir \cup {name} |-> IF n = name THEN content ELSE dir[n]]

\* the working directory after save_context got as far as `progress`
save_context(dir, c, progress) ==
    CASE progress = "pickle_fails" -> dir
      [] progress = "json_fails" -> WriteFile(dir, PickleName, Pickled(c))
      [] OTHER -> WriteFile(WriteFile(dir, PickleName, Pickled(c)), JsonName, Json(c))

SaveProgress == {"pickle_fails", "json_fails", "saved"}

(***************************************************************************)
(* The command.  One action per step of analyze_repo; a step that leaves   *)
(* analyze_repository's try block, by return or by exception, runs the     *)
(* finally block and cli.py's report in the same step.                     *)
(***************************************************************************)
ClearLocals == structure' = <<>> /\ pending' = <<>> /\ files' = <<>>

\* an exception leaves analyze_repository through the finally block and is
\* caught and reported by cli.py line 22
Raised(exc, dir) ==
    /\ scratch' = Finally(dir)
    /\ outcome' = [call |-> "raised", error |-> exc, context |-> NoContext]
    /\ echo' = "Error: " \o exc
    /\ pc' = "idle"
    /\ ClearLocals

\* cli.py lines 13-15
AnalyzeRepoNoToken(limit) ==
    /\ pc = "idle"
    /\ runs < limit
    /\ \E t \in Tokens, o \in Outputs :
        /\ MissingToken(t)
        /\ token' = t
        /\ output' = o
    /\ runs' = runs + 1
    /\ outcome' = [call |-> "rejected", error |-> "ClickException", context |-> NoContext]
    /\ echo' = "Error: Please set the GITHUB_TOKEN environment variable"
    /\ UNCHANGED <<pc, scratch, cwd, agents, cloneCalls, run, structure, pending, files>>

\* cli.py lines 13-19 up to the call of analyze_repository, and main.py line 139
AnalyzeRepoStart(limit) ==
    /\ pc = "idle"
    /\ runs < limit
    /\ \E t \in Tokens, o \in Outputs :
        /\ ~MissingToken(t)
        /\ token' = t
        /\ output' = o
    /\ runs' = runs + 1
    /\ agents' = agents + 1
    /\ run' = [NoRun EXCEPT !.after = outcome.call, !.existed = scratch.exists]
    /\ outcome' = [call |-> "running", error |-> "", context |-> NoContext]
    /\ echo' = ""
    /\ pc' = "clone"
    /\ UNCHANGED <<scratch, cwd, cloneCalls, structure, pending, files>>

\* clone_repository, lines 47-48: the path exists
CloneReuse ==
    /\ pc = "clone"
    /\ ReusesLocalPath(scratch)
    /\ \/ /\ scratch.repo
          /\ pc' = "structure"
          /\ UNCHANGED <<scratch, outcome, echo, structure, pending, files>>
       \/ /\ ~scratch.repo
          /\ Raised("InvalidGitRepositoryError", scratch)
    /\ UNCHANGED <<token, output, cwd, agents, cloneCalls, run, runs>>

\* clone_repository, lines 50-55: Repo.clone_from is called
CloneFrom(repos) ==
    /\ pc = "clone"
    /\ ~ReusesLocalPath(scratch)
    /\ cloneCalls' = cloneCalls + 1
    /\ run' = [run EXCEPT !.clones = @ + 1]
    /\ \/ \E tree \in repos :
            /\ ~scratch.exists
            /\ scratch' = Present(TRUE, tree)
            /\ pc' = "structure"
            /\ UNCHANGED <<outcome, echo, structure, pending, files>>
       \/ \E partial \in {scratch, Present(FALSE, {})} :
            Raised("GitCommandError", partial)
    /\ UNCHANGED <<token, output, cwd, agents, runs>>

\* analyze_file_structure, and the start of os.walk
AnalyzeStructure ==
    /\ pc = "structure"
    /\ LET r == analyze_file_structure(scratch.tree)
       IN \/ /\ r.ok
             /\ structure' = r.val
             /\ pending' \in SelectedWalks(scratch.tree)
             /\ files' = <<>>
             /\ run' = [run EXCEPT !.tree = scratch.tree]
             /\ pc' = "walk"
             /\ UNCHANGED <<scratch, outcome, echo>>
          \/ /\ ~r.ok
             /\ Raised(r.exc, scratch)
             /\ run' = [run EXCEPT !.tree = scratch.tree]
    /\ UNCHANGED <<token, output, cwd, agents, cloneCalls, runs>>

\* one turn of the loop of lines 150-155: the next selected file is analysed
AnalyzeFile ==
    /\ pc = "walk"
    /\ pending # <<>>
    /\ \E disk \in DiskFiles :
        LET e == Head(pending)
            r == analyze_file_content(e.path, e.kind, disk)
        IN /\ run' = [run EXCEPT !.opened = [path |-> e.path, kind |-> e.kind, disk |-> disk]]
           /\ \/ /\ r.ok
                 /\ files' = Append(files, r.val)
                 /\ pending' = Tail(pending)
                 /\ UNCHANGED <<pc, scratch, outcome, echo, structure>>
              \/ /\ ~r.ok
                 /\ Raised(r.exc, scratch)
    /\ UNCHANGED <<token, output, cwd, agents, cloneCalls, runs>>

\* lines 157-170 and the finally block, then cli.py line 20
SaveAndReturn ==
    /\ pc = "walk"
    /\ pending = <<>>
    /\ LET repo_context == [repo_name |-> Last(RepoUrlParts),
                            branch |-> Branch,
                            files |-> files,
                            structure |-> structure,
                            main_languages |-> detect_main_languages(files),
                            dependencies |-> aggregate_dependencies(files)]
       IN \E progress \in SaveProgress :
            /\ cwd' = save_context(cwd, repo_context, progress)
            /\ \/ /\ progress = "saved"
                  /\ scratch' = Finally(scratch)
                  /\ outcome' = [call |-> "returned", error |-> "", context |-> repo_context]
                  /\ echo' = "Analysis completed. Context saved to " \o output
                  /\ pc' = "idle"
                  /\ ClearLocals
               \/ /\ progress # "saved"
                  /\ Raised("OSError", scratch)
    /\ UNCHANGED <<token, output, agents, cloneCalls, run, runs>>

(***************************************************************************)
(* Spec: one invocation of the command, from any state of the disk.        *)
(***************************************************************************)
Init ==
    /\ pc = "idle"
    /\ token = TokenNone
    /\ output = "repo_context.json"
    /\ scratch \in {Absent} \cup {Present(g, t) : g \in BOOLEAN, t \in Trees}
    /\ cwd = <<>>
    /\ agents = 0
    /\ cloneCalls = 0
    /\ run = NoRun
    /\ structure = <<>>
    /\ pending = <<>>
    /\ files = <<>>
    /\ outcome = NoOutcome
    /\ echo = ""
    /\ runs = 0
    /\ op = "none"
    /\ arg = NoArg
    /\ ret = NoRet

Next ==
    \/ AnalyzeRepoNoToken(1) /\ UNCHANGED callVars
    \/ AnalyzeRepoStart(1) /\ UNCHANGED callVars
    \/ CloneReuse /\ UNCHANGED callVars
    \/ CloneFrom(Trees) /\ UNCHANGED callVars
    \/ AnalyzeStructure /\ UNCHANGED callVars
    \/ AnalyzeFile /\ UNCHANGED callVars
    \/ SaveAndReturn /\ UNCHANGED callVars

Spec == Init /\ [][Next]_vars

(***************************************************************************)
(* SpecRerun: the command invoked several times in a row, on repositories  *)
(* of at most one entry.                                                   *)
(***************************************************************************)
SmallTrees == TreesUpTo(1)

InitRerun ==
    /\ Init
    /\ scratch \in {Absent} \cup {Present(g, t) : g \in BOOLEAN, t \in SmallTrees}

NextRerun ==
    \/ AnalyzeRepoNoToken(MaxRuns) /\ UNCHANGED callVars
    \/ AnalyzeRepoStart(MaxRuns) /\ UNCHANGED callVars
    \/ CloneReuse /\ UNCHANGED callVars
    \/ CloneFrom(SmallTrees) /\ UNCHANGED callVars
    \/ AnalyzeStructure /\ UNCHANGED callVars
    \/ AnalyzeFile /\ UNCHANGED callVars
    \/ SaveAndReturn /\ UNCHANGED callVars

SpecRerun == InitRerun /\ [][NextRerun]_vars

(***************************************************************************)
(* SpecCalls: one of the agent's methods called directly, on bounded       *)
(* inputs.                                                                 *)
(***************************************************************************)
SampleDisk == [utf8 |-> TRUE, text |-> SampleSource]

\* FileContext objects of three languages
SampleFiles == {analyze_file_content(<<n>>, "file", SampleDisk).val : n \in {a_py, b_js, dot_py}}

InitCalls ==
    /\ Init
    /\ scratch = Absent

CallAnalyzeFileStructure ==
    /\ op = "none"
    /\ \E t \in Trees :
        /\ op' = "analyze_file_structure"
        /\ arg' = [NoArg EXCEPT !.tree = t]
        /\ ret' = [NoRet EXCEPT !.structure = analyze_file_structure(t)]
    /\ UNCHANGED pipelineVars

CallDetectLanguage ==
    /\ op = "none"
    /\ \E e \in Extensions :
        /\ op' = "detect_language"
        /\ arg' = [NoArg EXCEPT !.ext = e]
        /\ ret' = [NoRet EXCEPT !.language = detect_language(e)]
    /\ UNCHANGED pipelineVars

CallExtractImports ==
    /\ op = "none"
    /\ \E c \in Sources, l \in Languages :
        /\ op' = "extract_imports"
        /\ arg' = [NoArg EXCEPT !.content = c, !.language = l]
        /\ ret' = [NoRet EXCEPT !.imports = extract_imports(c, l)]
    /\ UNCHANGED pipelineVars

CallDetectMainLanguages ==
    /\ op = "none"
    /\ \E fs \in SeqsUpTo(SampleFiles, MaxFiles) :
        /\ op' = "detect_main_languages"
        /\ arg' = [NoArg EXCEPT !.files = fs]
        /\ ret' = [NoRet EXCEPT !.main_languages = detect_main_languages(fs)]
    /\ UNCHANGED pipelineVars

NextCalls ==
    \/ CallAnalyzeFileStructure
    \/ CallDetectLanguage
    \/ CallExtractImports
    \/ CallDetectMainLanguages

SpecCalls == InitCalls /\ [][NextCalls]_vars

(***************************************************************************)
(* Properties of the code, each stated apart from the operators that model *)
(* the step it is about.                                                   *)
(***************************************************************************)
CallEnded == outcome.call \in {"returned", "raised"}

NameOf(path) == path[Len(path)]

IsHiddenName(name) == Len(name) > 0 /\ name[1] = "."

\* the file names line 152 lets through
EligibleName(name) ==
    \E s \in {Ext_py, Ext_js, Ext_java, Ext_ts, Ext_go} :
        Len(name) >= Len(s) /\ \A i \in 1..Len(s) : name[Len(name) - Len(s) + i] = s[i]

EligiblePaths(tree) == {e.path : e \in {x \in tree : x.kind # "dir" /\ EligibleName(NameOf(x.path))}}

RecordPaths(fs) == {fs[i].path : i \in 1..Len(fs)}

\* the entries of a nested mapping: every key with its path, a None value as a
\* file and a mapping as a directory
RECURSIVE Flatten(_, _)
Flatten(dict, prefix) ==
    UNION { {[path |-> Append(prefix, nm),
              kind |-> IF dict[nm].k = "None" THEN "file" ELSE "dir"]}
            \cup (IF dict[nm].k = "dict" THEN Flatten(dict[nm].d, Append(prefix, nm)) ELSE {})
            : nm \in DOMAIN dict }

C3_NoFileFailureAborts ==
    [][ (pc = "walk" /\ pending # <<>>) =>
            /\ pc' = "walk"
            /\ Len(files') = Len(files) + 1
            /\ (~run'.opened.disk.text.parses => files'[Len(files')].imports = <<>>) ]_vars

\* every record of a Python file that does not parse has no imports, and a
\* call that returned has written a record for every selected file
C3_RecordForEveryFile ==
    /\ \A i \in 1..Len(files) :
          (files[i].language = "python" /\ ~files[i].content.parses) => files[i].imports = <<>>
    /\ outcome.call = "returned" =>
          /\ RecordPaths(outcome.context.files) = EligiblePaths(run.tree)
          /\ JsonName \in DOMAIN cwd
          /\ RecordPaths(cwd[JsonName].data.files) = EligiblePaths(run.tree)
          /\ \A i \in 1..Len(outcome.context.files) :
                LET f == outcome.context.files[i]
                IN ~f.content.parses => f.imports = <<>> /\ cwd[JsonName].data.files[i].imports = <<>>

\* C3, amended: a file that was opened and decoded gets a record, with no
\* imports if its source does not parse, and the loop goes on to the next file;
\* a call that returns has written a record for every selected file.
C3_ParseFailureIsAbsorbed ==
    /\ []C3_RecordForEveryFile
    /\ [][ (pc = "walk" /\ pending # <<>> /\ run'.opened.kind = "file" /\ run'.opened.disk.utf8) =>
              /\ pc' = "walk"
              /\ pending' = Tail(pending)
              /\ Len(files') = Len(files) + 1
              /\ files'[Len(files')].path = Head(pending).path
              /\ (~run'.opened.disk.text.parses => files'[Len(files')].imports = <<>>) ]_vars

\* a call returned whose first record is of a Python file that does not parse
\* and whose second record is of the file analysed after it
C3_Witness ==
    /\ outcome.call = "returned"
    /\ Len(outcome.context.files) = 2
    /\ outcome.context.files[1].language = "python"
    /\ ~outcome.context.files[1].content.parses
    /\ outcome.context.files[1].imports = <<>>
    /\ Len(cwd[JsonName].data.files) = 2

\* C4: an invocation whose GITHUB_TOKEN is absent or empty ends with the
\* user-facing error and has done nothing: no agent, no clone, no change of the
\* scratch directory or of the working directory.
C4_NoTokenNoWork ==
    [][ (runs' = runs + 1 /\ (token'.isNone \/ token'.str = "")) =>
            /\ outcome'.call = "rejected"
            /\ outcome'.error = "ClickException"
            /\ echo' = "Error: Please set the GITHUB_TOKEN environment variable"
            /\ pc' = "idle"
            /\ agents' = agents
            /\ cloneCalls' = cloneCalls
            /\ scratch' = scratch
            /\ cwd' = cwd ]_vars

\* an invocation with an empty token was rejected beside an existing scratch directory
C4_Witness ==
    /\ outcome.call = "rejected"
    /\ ~token.isNone
    /\ token.str = ""
    /\ scratch.exists
    /\ agents = 0

\* C5: after a successful run with --output F the JSON document is in the file
\* named F, as the completion message says.
C5_DocumentWrittenToOutput ==
    outcome.call = "returned" =>
        /\ echo = "Analysis completed. Context saved to " \o output
        /\ output \in DOMAIN cwd
        /\ cwd[output] = [format |-> "json", data |-> json_context(outcome.context)]

NonHiddenEntries(tree) ==
    {e \in tree : \A i \in 1..Len(e.path) : ~IsHiddenName(e.path[i])}

KeptEntries(tree) ==
    {e \in tree : \A i \in 1..Len(e.path) : ~IsHiddenName(e.path[i]) /\ e.path[i] # pycache}

\* C6, as claimed: the mapping holds exactly the entries none of whose path
\* components is hidden.
C6_ExactlyNonHiddenEntries ==
    (op = "analyze_file_structure" /\ ret.structure.ok) =>
        Flatten(ret.structure.val, <<>>) = NonHiddenEntries(arg.tree)

\* C6, amended: the mapping holds exactly the entries none of whose path
\* components is hidden or named __pycache__; a tree with only hidden entries
\* gives the empty mapping.
C6_ExactlyKeptEntries ==
    op = "analyze_file_structure" =>
        /\ ret.structure.ok => Flatten(ret.structure.val, <<>>) = KeptEntries(arg.tree)
        /\ NonHiddenEntries(arg.tree) = {} => (ret.structure.ok /\ ret.structure.val = <<>>)

\* a tree with a file inside __pycache__, which the mapping omits
C6_Witness ==
    /\ op = "analyze_file_structure"
    /\ ret.structure.ok
    /\ [path |-> <<pycache, a_py>>, kind |-> "file"] \in arg.tree
    /\ ret.structure.val = <<>>

\* C7: a record's language agrees with the extension that selected the file:
\* python for .py, a value of the table or unknown in every case.
C7_LanguageAgreesWithExtension ==
    \A i \in 1..Len(files) :
        LET name == NameOf(files[i].path)
            lang == files[i].language
        IN /\ lang \in {"python", "javascript", "typescript", "java", "cpp", "go", "unknown"}
           /\ \A s \in DOMAIN language_map :
                 (Len(name) >= Len(s) /\ SubSeq(name, Len(name) - Len(s) + 1, Len(name)) = s)
                     => lang = language_map[s]

CountOf(fs, l) == Cardinality({i \in 1..Len(fs) : fs[i].language = l})

EachLanguageOnce(fs, langs) ==
    /\ {langs[j] : j \in 1..Len(langs)} = {fs[i].language : i \in 1..Len(fs)}
    /\ \A j, k \in 1..Len(langs) : langs[j] = langs[k] => j = k

\* C8, as claimed: every language that occurs is returned once, and the counts
\* of consecutive languages are strictly descending.
C8_StrictlyDescending ==
    op = "detect_main_languages" =>
        /\ EachLanguageOnce(arg.files, ret.main_languages)
        /\ \A j \in 1..(Len(ret.main_languages) - 1) : CountOf(arg.files, ret.main_languages[j]) > CountOf(arg.files, ret.main_languages[j + 1])

\* C8, amended: every language that occurs is returned once, and the counts of
\* consecutive languages never increase.
C8_Descending ==
    op = "detect_main_languages" =>
        /\ EachLanguageOnce(arg.files, ret.main_languages)
        /\ \A j \in 1..(Len(ret.main_languages) - 1) : CountOf(arg.files, ret.main_languages[j]) >= CountOf(arg.files, ret.main_languages[j + 1])

\* three files of two languages, the more frequent language met second
C8_Witness ==
    /\ op = "detect_main_languages"
    /\ Len(arg.files) = 3
    /\ Len(ret.main_languages) = 2
    /\ ret.main_languages[1] # arg.files[1].language
    /\ CountOf(arg.files, ret.main_languages[1]) = 2

StmtNames(st) ==
    CASE st.type = "Import" -> [i \in 1..Len(st.names) |-> st.names[i].name]
      [] st.type = "ImportFrom" ->
            [i \in 1..Len(st.names) |->
                (IF st.module = "None" THEN "" ELSE st.module) \o "." \o st.names[i].name]
      [] OTHER -> <<>>

RECURSIVE InSourceOrder(_)
InSourceOrder(body) ==
    IF body = <<>> THEN <<>> ELSE StmtNames(Head(body)) \o InSourceOrder(Tail(body))

ImportsOnlyAtTopLevel(src) ==
    /\ src.parses
    /\ \A i \in 1..Len(src.tree.body) :
          LET st == src.tree.body[i]
          IN st.type = "If" =>
                \A j \in 1..Len(st.body) : st.body[j].type \notin {"Import", "ImportFrom", "If"}

\* C9: for source that parses and imports only at top level, the result lists
\* the imported names in source order, duplicates kept: the module of a direct
\* import, <module>.<name> of a from-import; for another language it is empty.
C9_ImportsInSourceOrder ==
    op = "extract_imports" =>
        /\ (arg.language = "python" /\ ImportsOnlyAtTopLevel(arg.content)) =>
              (ret.imports.ok /\ ret.imports.val = InSourceOrder(arg.content.tree.body))
        /\ arg.language # "python" => (ret.imports.ok /\ ret.imports.val = <<>>)

\* `import os` then `from a.b import c` gives ["os", "a.b.c"]
C9_Witness ==
    /\ op = "extract_imports"
    /\ arg.language = "python"
    /\ arg.content.parses
    /\ Len(arg.content.tree.body) = 2
    /\ arg.content.tree.body[1].type = "Import"
    /\ arg.content.tree.body[2].type = "ImportFrom"
    /\ ret.imports.val = <<"os", "a.b.c">>

RECURSIVE IsFileLeaf(_, _)
IsFileLeaf(dict, path) ==
    /\ path # <<>>
    /\ Head(path) \in DOMAIN dict
    /\ IF Len(path) = 1 THEN dict[Head(path)].k = "None"
       ELSE dict[Head(path)].k = "dict" /\ IsFileLeaf(dict[Head(path)].d, Tail(path))

\* C10: every record of a returned snapshot is a file leaf of its tree.
C10_RecordsAreTreeLeaves ==
    outcome.call = "returned" =>
        \A i \in 1..Len(outcome.context.files) :
            IsFileLeaf(outcome.context.structure, outcome.context.files[i].path)

====
